---- MODULE Spec2Model ----
(***************************************************************************)
(* Model of the timing recovery loop of                                    *)
(* src/dsp_training/timing_recovery_demo.py (lines 66-115).                *)
(*                                                                         *)
(* Number representation.                                                  *)
(*  - A complex sample is a record [nan, re, im] with integer parts; the   *)
(*    record with nan = TRUE stands for a value with a NaN component.      *)
(*  - The TED error is err = tanh(x).  tanh cannot be evaluated here, so   *)
(*    its result is a multiple v of a quantum q = 1/ErrLevels with the     *)
(*    sign of x, 0 for x = 0 and |v| <= ErrLevels (|err| <= 1): every such *)
(*    v is explored.                                                       *)
(*  - dtau is kept exactly as an integer count v of alpha*q.               *)
(*  - tau is kept exactly as a pair (a, b) meaning                         *)
(*        tau = a * (alpha*q/samples_per_symbol) + b * (beta*q);           *)
(*    alpha = 0.005 and beta = 2*sqrt(alpha) are incommensurable, so two   *)
(*    values of tau are equal exactly when their pairs are equal.          *)
(*  - The interpolator output np.dot(buf, flip(sinc(th - tau) * w)) is     *)
(*    NaN when tau or a buffer slot is NaN, 0 when the buffer is all zero, *)
(*    and otherwise any value of OutVals (the windowed sinc is not         *)
(*    evaluated).                                                          *)
(***************************************************************************)
EXTENDS Integers, Sequences, FiniteSets

VARIABLES
    L,            \* len(mf_samples_with_offset)
    i,            \* loop index: the index of the next sample to process
    buf,          \* 5-slot interpolating filter buffer
    mf_samples,   \* interpolator outputs, indexed 0..L-1
    buf_dz,       \* 3-slot derivative buffer
    dz,           \* derivative of the last cycle
    counter,      \* strobe counter
    err,          \* last TED error
    tau,          \* timing offset estimate
    dtau,         \* timing rate estimate
    recorded,     \* indices of tau_vect / dtau_vect that were written
    strobe,       \* whether the last cycle took the strobe branch
    nstrobes,     \* number of strobe cycles so far
    strobeHist,   \* per cycle: did it take the strobe branch
    bufSrc,       \* per buf slot: index of the sample it holds, -1 = initial zero
    dzSrc,        \* per buf_dz slot: index of the output it holds, -1 = initial zero
    prevIdx,      \* array index the TED read at the last strobe (after wrap)
    prevRaw,      \* index expression i-1 the TED used at the last strobe
    prevVal,      \* value the TED read at the last strobe
    runE,         \* error value of the current run of equal errors
    runN,         \* number of consecutive strobes with error runE
    runBase,      \* dtau before the first strobe of the run
    nNaN,         \* number of NaN samples ingested
    nZero         \* number of zero samples ingested

vars == <<L, i, buf, mf_samples, buf_dz, dz, counter, err, tau, dtau, recorded,
          strobe, nstrobes, strobeHist, bufSrc, dzSrc, prevIdx, prevRaw, prevVal,
          runE, runN, runBase, nNaN, nZero>>

\* ---------------------------------------------------------------- bounds
MaxLen == 10
MaxNaN == 1
MaxZero == 1
ErrLevels == 2

\* ------------------------------------------------------------- constants
samples_per_symbol == 4
BufLen == 5
DzLen == 3
sample_delay == (BufLen - 1) \div 2
\* mutant of LoopStart: the loop starts at index 0
LoopStartZero == 1 - 1
LoopStart == 1

\* ---------------------------------------------------------------- values
Cx(r, m) == [nan |-> FALSE, re |-> r, im |-> m]
NaNc == [nan |-> TRUE, re |-> 0, im |-> 0]
Zero == Cx(0, 0)
One == Cx(1, 0)
OutVals == {Cx(1, 0), Cx(0, 1)}

RealNaN == [nan |-> TRUE, a |-> 0, b |-> 0]
Tau0 == [nan |-> FALSE, a |-> 0, b |-> 0]
Dtau0 == [nan |-> FALSE, v |-> 0]
ErrNaN == [nan |-> TRUE, v |-> 0]
Err(v) == [nan |-> FALSE, v |-> v]

\* ------------------------------------------------------- real arithmetic
\* t + alpha*e   (alpha*q = samples_per_symbol units of a)
AddAlpha(t, e) ==
    IF t.nan \/ e.nan THEN RealNaN
    ELSE [t EXCEPT !.a = t.a + samples_per_symbol * e.v]

\* t + beta*e
AddBeta(t, e) ==
    IF t.nan \/ e.nan THEN RealNaN ELSE [t EXCEPT !.b = t.b + e.v]

\* mutant of DtauAdd: the rate estimate is overwritten instead of accumulated
DtauAddOverwrite(d, e) ==
    IF d.nan \/ e.nan THEN [nan |-> TRUE, v |-> 0] ELSE [d EXCEPT !.v = e.v]

\* d + alpha*e
DtauAdd(d, e) ==
    IF d.nan \/ e.nan THEN [nan |-> TRUE, v |-> 0] ELSE [d EXCEPT !.v = d.v + e.v]

\* ---------------------------------------------------------- loop pieces
\* buf[:-1] = buf[1:]; buf[-1] = x
Push(b, x) == [k \in 1..Len(b) |-> IF k < Len(b) THEN b[k + 1] ELSE x]

\* hi = np.sinc(th - tau) * w; np.dot(buf, np.flip(hi))
Interp(b, t) ==
    IF t.nan \/ (\E k \in 1..Len(b) : b[k].nan) THEN {NaNc}
    ELSE IF \A k \in 1..Len(b) : b[k] = Zero THEN {Zero}
    ELSE OutVals

\* mutant of Deriv: the sign convention reversed (newest minus oldest)
DerivReversed(bd) ==
    IF \E k \in 1..Len(bd) : bd[k].nan THEN NaNc
    ELSE Cx(bd[3].re - bd[1].re, bd[3].im - bd[1].im)

\* dz = -np.dot(buf_dz, [-1, 0, 1])
Deriv(bd) ==
    IF \E k \in 1..Len(bd) : bd[k].nan THEN NaNc
    ELSE Cx(bd[1].re - bd[3].re, bd[1].im - bd[3].im)

\* counter = counter + 1
AdvanceCounter(c) == c + 1

\* if counter >= samples_per_symbol
StrobeTest(c) == c >= samples_per_symbol

\* mutant of CounterAfterStrobe: the decrement is left out
CounterAfterStrobeNoDecrement(c) == c

\* mutant of CounterAfterStrobe: the counter is decremented by one too few
CounterAfterStrobeOffByOne(c) == c - samples_per_symbol + 1

\* counter = counter - samples_per_symbol
CounterAfterStrobe(c) == c - samples_per_symbol

\* Python indexing of an array of length n: a negative index counts from the end
PyIndex(k, n) == IF k < 0 THEN n + k ELSE k

\* the index expression of the previous interpolated sample: mf_samples[i-1]
PrevIndex(k) == k - 1

\* quantised tanh: the sign of x, magnitude 1..ErrLevels quanta, 0 at 0
TanhQ(x) ==
    IF x = 0 THEN {0}
    ELSE IF x > 0 THEN 1..ErrLevels
    ELSE {-v : v \in 1..ErrLevels}

\* (dz * np.conj(prev)).real
ReConjProd(d, p) == d.re * p.re + d.im * p.im

\* err = np.tanh((dz * np.conj(mf_samples[i-1])).real)
TED(d, p) ==
    IF d.nan \/ p.nan THEN {ErrNaN}
    ELSE {Err(v) : v \in TanhQ(ReConjProd(d, p))}

\* mutant of LoopFilter: line 104 (tau = tau + alpha*err) left out
LoopFilterNoAlphaPhase(t, d, e) ==
    [tau |-> AddBeta(t, e), dtau |-> DtauAdd(d, e)]

\* tau = tau + alpha*err; dtau = dtau + alpha*err; tau = tau + beta*err
LoopFilter(t, d, e) ==
    [tau |-> AddBeta(AddAlpha(t, e), e), dtau |-> DtauAdd(d, e)]

\* mutant of Drift: dtau is added without the division by samples_per_symbol
DriftNoDivide(t, d) ==
    IF t.nan \/ d.nan THEN RealNaN
    ELSE [t EXCEPT !.a = t.a + samples_per_symbol * d.v]

\* tau = tau + dtau/samples_per_symbol
Drift(t, d) ==
    IF t.nan \/ d.nan THEN RealNaN ELSE [t EXCEPT !.a = t.a + d.v]

\* the samples the stream may deliver next
NextSamples ==
    {One}
    \cup (IF nZero < MaxZero THEN {Zero} ELSE {})
    \cup (IF nNaN < MaxNaN THEN {NaNc} ELSE {})

\* ------------------------------------------------------------------ init
Init ==
    /\ L \in 0..MaxLen
    /\ i = LoopStart
    /\ buf = [k \in 1..BufLen |-> Zero]
    /\ mf_samples = [k \in 0..(L - 1) |-> Zero]
    /\ buf_dz = [k \in 1..DzLen |-> Zero]
    /\ dz = Zero
    /\ counter = sample_delay + 1
    /\ err = Err(0)
    /\ tau = Tau0
    /\ dtau = Dtau0
    /\ recorded = {}
    /\ strobe = FALSE
    /\ nstrobes = 0
    /\ strobeHist = <<>>
    /\ bufSrc = [k \in 1..BufLen |-> -1]
    /\ dzSrc = [k \in 1..DzLen |-> -1]
    /\ prevIdx = 0
    /\ prevRaw = 0
    /\ prevVal = Zero
    /\ runE = 0
    /\ runN = 0
    /\ runBase = 0
    /\ nNaN = 0
    /\ nZero = 0

\* --------------------------------------------------------------- actions
\* Lines 81-92 and 113-115: what every iteration does, whatever the branch.
Common(x, out) ==
    /\ i < L
    /\ buf' = Push(buf, x)
    /\ out \in Interp(buf', tau)
    /\ mf_samples' = [mf_samples EXCEPT ![PyIndex(i, L)] = out]
    /\ buf_dz' = Push(buf_dz, out)
    /\ dz' = Deriv(buf_dz')
    /\ recorded' = recorded \cup {PyIndex(i, L)}
    /\ i' = i + 1
    /\ bufSrc' = Push(bufSrc, i)
    /\ dzSrc' = Push(dzSrc, i)
    /\ nNaN' = IF x.nan THEN nNaN + 1 ELSE nNaN
    /\ nZero' = IF x = Zero THEN nZero + 1 ELSE nZero
    /\ L' = L

\* An iteration whose counter reaches samples_per_symbol (lines 96-108, 111).
StrobeCycle ==
    \E x \in NextSamples, out \in OutVals \cup {Zero, NaNc} :
        /\ Common(x, out)
        /\ StrobeTest(AdvanceCounter(counter))
        /\ counter' = CounterAfterStrobe(AdvanceCounter(counter))
        /\ prevRaw' = PrevIndex(i)
        /\ prevIdx' = PyIndex(PrevIndex(i), L)
        /\ prevVal' = mf_samples'[prevIdx']
        /\ err' \in TED(dz', prevVal')
        /\ dtau' = LoopFilter(tau, dtau, err').dtau
        /\ tau' = Drift(LoopFilter(tau, dtau, err').tau, dtau')
        /\ strobe' = TRUE
        /\ nstrobes' = nstrobes + 1
        /\ strobeHist' = Append(strobeHist, TRUE)
        /\ IF err'.nan
           THEN /\ runN' = 0
                /\ UNCHANGED <<runE, runBase>>
           ELSE IF runN > 0 /\ runE = err'.v
           THEN /\ runN' = runN + 1
                /\ UNCHANGED <<runE, runBase>>
           ELSE /\ runN' = 1
                /\ runE' = err'.v
                /\ runBase' = dtau.v

\* An iteration whose counter stays below samples_per_symbol (line 111 only).
PlainCycle ==
    \E x \in NextSamples, out \in OutVals \cup {Zero, NaNc} :
        /\ Common(x, out)
        /\ ~StrobeTest(AdvanceCounter(counter))
        /\ counter' = AdvanceCounter(counter)
        /\ tau' = Drift(tau, dtau)
        /\ strobe' = FALSE
        /\ strobeHist' = Append(strobeHist, FALSE)
        /\ UNCHANGED <<err, dtau, nstrobes, prevIdx, prevRaw, prevVal,
                       runE, runN, runBase>>

Next == StrobeCycle \/ PlainCycle

Spec == Init /\ [][Next]_vars

\* the for loop has ended
Done == i >= L

\* ---------------------------------------------------------------- claims
\* a loop iteration was taken and all the loop-filter operands are finite
FiniteStep == i' # i /\ ~tau.nan /\ ~dtau.nan /\ ~err'.nan

\* C1 (as stated): on a strobe cycle dtau' = dtau + alpha*error and
\* tau' = tau + beta*error + dtau'/R, with no other contribution to tau.
C1_TwoUpdatesOnly ==
    [][(FiniteStep /\ strobe') =>
          /\ dtau' = [nan |-> FALSE, v |-> dtau.v + err'.v]
          /\ tau' = [nan |-> FALSE, a |-> tau.a + dtau'.v, b |-> tau.b + err'.v]]_vars

\* C1 (amended): on a strobe cycle three updates use the same error value:
\* tau += alpha*error, dtau += alpha*error, tau += beta*error, then the drift:
\* dtau' = dtau + alpha*error and tau' = tau + (alpha + beta)*error + dtau'/R.
C1_ThreeUpdates ==
    [][(FiniteStep /\ strobe') =>
          /\ dtau' = [nan |-> FALSE, v |-> dtau.v + err'.v]
          /\ tau' = [nan |-> FALSE,
                     a |-> tau.a + samples_per_symbol * err'.v + dtau'.v,
                     b |-> tau.b + err'.v]]_vars

\* C1 witness: a strobe cycle has just run with a finite, nonzero error.
C1_Witness == strobe /\ ~err.nan /\ err.v # 0 /\ ~tau.nan /\ ~dtau.nan

\* C2: a cycle is a strobe exactly when the counter after its increment reaches
\* R; on a cycle that is not a strobe the TED is not evaluated (err and the
\* strobe count stay), dtau is unchanged and tau changes by exactly dtau/R; on
\* a strobe cycle too the drift dtau'/R is added after the strobe updates.
C2_DriftEveryCycle ==
    [][i' # i =>
          /\ strobe' = (counter + 1 >= samples_per_symbol)
          /\ ~strobe' =>
                /\ err' = err /\ dtau' = dtau /\ nstrobes' = nstrobes
                /\ (~tau.nan /\ ~dtau.nan) =>
                      tau' = [nan |-> FALSE, a |-> tau.a + dtau.v, b |-> tau.b]
          /\ (strobe' /\ FiniteStep) =>
                tau'.a - tau.a - samples_per_symbol * err'.v = dtau'.v]_vars

\* C2 witness: a non-strobe cycle has just run while dtau was finite and nonzero.
C2_Witness ==
    /\ ~strobe /\ Len(strobeHist) > 0
    /\ ~tau.nan /\ ~dtau.nan /\ dtau.v # 0

\* C3 (as stated): when the stream of L samples has been processed, exactly L
\* cycles have run, sample 0 included, and L diagnostic values are recorded.
C3_OneCyclePerSample ==
    Done => /\ Len(strobeHist) = L
            /\ Cardinality(recorded) = L
            /\ (L > 0 => 0 \in recorded)

\* C4: after the whole stream is processed the number of strobe cycles differs
\* from floor(L / R) by at most 1.
C4_StrobeCount ==
    Done => (nstrobes - (L \div samples_per_symbol)) \in -1..1

\* C4 witness: a stream of at least R samples is finished and the strobe count
\* is floor(L / R) + 1.
C4_Witness ==
    /\ Done /\ L >= samples_per_symbol
    /\ nstrobes = (L \div samples_per_symbol) + 1

\* number of strobes among cycles from+1 .. from+n
StrobesIn(from, n) ==
    Cardinality({k \in (from + 1)..(from + n) : strobeHist[k]})

\* C5: the counter stays in 0..R-1 between cycles, and any k*R consecutive
\* cycles contain exactly k strobes, whatever tau, dtau and the samples did.
C5_StrobeSpacing ==
    /\ counter \in 0..(samples_per_symbol - 1)
    /\ \A k \in 1..(Len(strobeHist) \div samples_per_symbol) :
          \A from \in 0..(Len(strobeHist) - k * samples_per_symbol) :
              StrobesIn(from, k * samples_per_symbol) = k

\* C5 witness: at least 2*R cycles ran, with a perturbed tau.
C5_Witness ==
    /\ Len(strobeHist) >= 2 * samples_per_symbol
    /\ ~tau.nan /\ tau.b # 0

\* C6: after n consecutive strobes with the same error e,
\* dtau = dtau_0 + n*alpha*e, also across the non-strobe cycles in between.
C6_Linearity ==
    (runN > 0 /\ ~dtau.nan) => dtau.v = runBase + runN * runE

\* C6 witness: two consecutive strobes had the same nonzero error.
C6_Witness == runN >= 2 /\ runE # 0 /\ ~dtau.nan

\* C7 (as stated): once tau or dtau is non-finite the loop does not go on
\* processing samples (it has no other way to report a fault).
C7_FaultSurfaced ==
    [][(tau.nan \/ dtau.nan) => i' = i]_vars

\* the output of cycle k, zero where no such cycle ran
OutOf(k) == IF k \in recorded THEN mf_samples[k] ELSE Zero

\* C8: every buffer slot holds its initial zero or a value written in an
\* earlier cycle; the TED's index i-1 is never below 0 and the value it reads
\* is the initial zero or an output written earlier; on the first strobe it is
\* the initial zero.  This holds for every stream length.
C8_NoUndefinedReads ==
    /\ \A k \in 1..BufLen :
          IF bufSrc[k] = -1 THEN buf[k] = Zero
          ELSE bufSrc[k] \in recorded /\ bufSrc[k] < i
    /\ \A k \in 1..DzLen :
          IF dzSrc[k] = -1 THEN buf_dz[k] = Zero
          ELSE dzSrc[k] \in recorded /\ buf_dz[k] = mf_samples[dzSrc[k]]
    /\ \A k \in DOMAIN mf_samples : k \notin recorded => mf_samples[k] = Zero
    /\ nstrobes > 0 =>
          /\ prevRaw >= 0 /\ prevIdx = prevRaw /\ prevIdx \in DOMAIN mf_samples
          /\ prevIdx < i - 1
          /\ prevIdx \notin recorded => prevVal = Zero
    /\ nstrobes = 1 => prevVal = Zero

\* C8 witness: a stream shorter than the 5-slot buffer is finished and its
\* first strobe read the initial zero.
C8_Witness ==
    /\ Done /\ L < BufLen /\ nstrobes = 1
    /\ prevVal = Zero /\ prevIdx = 0 /\ buf[BufLen] # Zero

\* C10: the derivative buffer always has 3 slots; after cycle i-1, slot 3 holds
\* the output of cycle i-1, slot 2 that of cycle i-2, slot 1 that of cycle i-3
\* (zero where no such cycle ran), and dz is slot 1 minus slot 3.
C10_DerivBuffer ==
    /\ DOMAIN buf_dz = 1..DzLen
    /\ buf_dz[3] = OutOf(i - 1)
    /\ buf_dz[2] = OutOf(i - 2)
    /\ buf_dz[1] = OutOf(i - 3)
    /\ IF \E k \in 1..DzLen : buf_dz[k].nan THEN dz.nan
       ELSE dz = Cx(buf_dz[1].re - buf_dz[3].re, buf_dz[1].im - buf_dz[3].im)

\* C10 witness: three cycles ran and the oldest and newest outputs differ.
C10_Witness ==
    /\ Len(strobeHist) >= 3
    /\ ~dz.nan /\ dz # Zero
    /\ buf_dz[1] # Zero /\ buf_dz[1] # buf_dz[3]

====
